---- MODULE Spec2Model ----
(***************************************************************************)
(* A model of nlpsummarize.nlp.NLPFrame (src/nlpsummarize/nlp.py): the     *)
(* wrapper's construction (default column resolution), its four analyzers  *)
(* (sentence_stopwords, get_part_of_speech, detect_language, polarity) and *)
(* the aggregator get_nlp_summary.                                         *)
(*                                                                         *)
(* Text is a sequence of one-character strings.  The external              *)
(* collaborators (dependency checks, sentence tokenizer, POS tagger,       *)
(* language classifier, lexicon files) are the variable "env": what each   *)
(* of them answers for the table's text, drawn from bounded sets.          *)
(***************************************************************************)
EXTENDS Integers, Sequences, FiniteSets, TLC

VARIABLES
    phase,      \* "new" before NLPFrame.__init__ has run, "ready" after
    table,      \* the DataFrame contents: a sequence of columns
    ctor_arg,   \* the column argument handed to NLPFrame.__init__
    column,     \* self.column, the stored default column
    env,        \* the external collaborators: what each answers for this table
    call,       \* the last public call: operation and arguments
    result      \* the outcome of the last public call

vars == <<phase, table, ctor_arg, column, env, call, result>>

----------------------------------------------------------------------------
(* Bounds *)

MaxColumns == 2      \* columns of a table in the frame-level specification
MaxFilter == 2       \* length of an enumerated show_only list
MaxTags == 2         \* tagged tokens in the frame-level specification
MaxCells == 2        \* cells of the text column in the text specifications
MaxCellLen == 2      \* characters of a cell in the text specifications
MaxNof == 4          \* requested number of top frequencies
MaxPosTags == 6      \* tagged tokens in the part-of-speech specification

----------------------------------------------------------------------------
(* Python values *)

None == "<None>"

\* code points of the characters used by the model (Python compares str by code point)
Ord(c) ==
    CASE c = " " -> 32
      [] c = "," -> 44
      [] c = "-" -> 45
      [] c = "." -> 46
      [] c = "1" -> 49
      [] c = "G" -> 71
      [] c = "a" -> 97
      [] c = "b" -> 98
      [] c = "c" -> 99
      [] c = "g" -> 103

Chars == {" ", ",", "-", ".", "1", "G", "a", "b", "c", "g"}

IsSpace(c) == c \in {" ", "\n"}

\* the regular expression class \w
IsWord(c) == c \in {"1", "G", "a", "b", "c", "g"}

\* str.lower() on one character
LowerChar(c) == IF c = "G" THEN "g" ELSE c

lower(s) == [i \in 1..Len(s) |-> LowerChar(s[i])]

\* s < t for Python strings
RECURSIVE StrLess(_, _)
StrLess(s, t) ==
    IF Len(t) = 0 THEN FALSE
    ELSE IF Len(s) = 0 THEN TRUE
    ELSE IF Ord(Head(s)) # Ord(Head(t)) THEN Ord(Head(s)) < Ord(Head(t))
    ELSE StrLess(Tail(s), Tail(t))

\* sep.join(cells)
RECURSIVE Join(_, _)
Join(sep, cells) ==
    IF Len(cells) = 0 THEN <<>>
    ELSE IF Len(cells) = 1 THEN cells[1]
    ELSE cells[1] \o sep \o Join(sep, Tail(cells))

\* sequences over S of length at most n
SeqsUpTo(S, n) == UNION {[1..k -> S] : k \in 0..n}

Reverse(s) == [i \in 1..Len(s) |-> s[Len(s) + 1 - i]]

\* s[0:n] for n >= 0
Slice(s, n) == SubSeq(s, 1, IF n < Len(s) THEN n ELSE Len(s))

----------------------------------------------------------------------------
(* The table *)

Col(name, dtype, cells) == [name |-> name, dtype |-> dtype, cells |-> cells]

columns(t) == [i \in 1..Len(t) |-> t[i].name]

InColumns(name, t) == \E i \in 1..Len(t) : t[i].name = name

\* self.__getitem__(column) for a column that exists
getitem(t, name) == t[CHOOSE i \in 1..Len(t) : t[i].name = name]

\* self.select_dtypes(include='object').columns
RECURSIVE select_dtypes_object(_)
select_dtypes_object(t) ==
    IF Len(t) = 0 THEN <<>>
    ELSE IF Head(t).dtype = "object"
         THEN <<Head(t).name>> \o select_dtypes_object(Tail(t))
         ELSE select_dtypes_object(Tail(t))

\* truth value of a column argument: None and '' are false
Truthy(c) == c # None /\ c # ""

\* NLPFrame.__init__ without the test "column in self.columns"
InitColumn_unchecked(t, c) ==
    IF Truthy(c) THEN c
    ELSE LET text_columns == select_dtypes_object(t)
         IN IF Len(text_columns) # 0 THEN text_columns[1] ELSE None

\* NLPFrame.__init__, lines 52-66: the value stored in self.column
InitColumn(t, c) ==
    IF Truthy(c) /\ InColumns(c, t) THEN c
    ELSE LET text_columns == select_dtypes_object(t)
         IN IF Len(text_columns) # 0 THEN text_columns[1] ELSE None

----------------------------------------------------------------------------
(* Outcomes of a public call *)

\* a returned DataFrame of one row: column labels and the row's values
Frame(cols, row, trace) ==
    [kind |-> "frame", exc |-> "", msg |-> "", columns |-> cols, row |-> row,
     trace |-> trace]

\* pd.DataFrame(): no columns, no rows
EmptyFrame(trace) ==
    [kind |-> "empty", exc |-> "", msg |-> "", columns |-> <<>>, row |-> <<>>,
     trace |-> trace]

\* return None
Null(trace) ==
    [kind |-> "null", exc |-> "", msg |-> "", columns |-> <<>>, row |-> <<>>,
     trace |-> trace]

Raise(exc, msg, trace) ==
    [kind |-> "raise", exc |-> exc, msg |-> msg, columns |-> <<>>, row |-> <<>>,
     trace |-> trace]

NoResult ==
    [kind |-> "none", exc |-> "", msg |-> "", columns |-> <<>>, row |-> <<>>,
     trace |-> <<>>]

MissingColumn == "There is no column with text in the NLPFrame"
ColumnNotFound == "The column doesn't exist in the NLPFrame"

\* the value of a result frame under a column label
Cell(r, label) == r.row[CHOOSE i \in 1..Len(r.columns) : r.columns[i] = label]

----------------------------------------------------------------------------
(* sentence_stopwords, lines 112-188 *)

\* len(stopwords.words('english'))
StopWordCount == 179

\* str.split(): the maximal runs of non-whitespace characters
RECURSIVE SplitFrom(_, _, _)
SplitFrom(s, cur, acc) ==
    IF Len(s) = 0 THEN (IF Len(cur) = 0 THEN acc ELSE Append(acc, cur))
    ELSE IF IsSpace(Head(s))
         THEN SplitFrom(Tail(s), <<>>, IF Len(cur) = 0 THEN acc ELSE Append(acc, cur))
         ELSE SplitFrom(Tail(s), Append(cur, Head(s)), acc)

split(s) == SplitFrom(s, <<>>, <<>>)

\* list.count(w)
count(list, w) == Cardinality({i \in 1..Len(list) : list[i] = w})

\* the keys of dict(zip(word_list, wordfreq)), in insertion order
RECURSIVE DictKeys(_, _)
DictKeys(list, seen) ==
    IF Len(list) = 0 THEN seen
    ELSE IF \E i \in 1..Len(seen) : seen[i] = Head(list)
         THEN DictKeys(Tail(list), seen)
         ELSE DictKeys(Tail(list), Append(seen, Head(list)))

\* pairs compared by their count alone
TupleLess_count_only(p, q) == p[1] < q[1]

\* (count, token) < (count, token) as Python compares tuples
TupleLess(p, q) == p[1] < q[1] \/ (p[1] = q[1] /\ StrLess(p[2], q[2]))

RECURSIVE Insert(_, _)
Insert(sorted, p) ==
    IF Len(sorted) = 0 THEN <<p>>
    ELSE IF TupleLess(p, Head(sorted)) THEN <<p>> \o sorted
    ELSE <<Head(sorted)>> \o Insert(Tail(sorted), p)

\* list.sort(): ascending
RECURSIVE sort(_)
sort(list) == IF Len(list) = 0 THEN <<>> ELSE Insert(sort(Tail(list)), Head(list))

\* the cells joined by a space alone
all_messages_space(cells) == Join(<<" ">>, cells)

\* line 162: pd_df_col.str.cat(sep='. ')
all_messages_of(cells) == Join(<<".", " ">>, cells)

\* lines 171-183: the Frequency field for a corpus string
Frequency(all_messages, nof) ==
    LET word_list == split(all_messages)
        wordfreq == [i \in 1..Len(word_list) |-> count(word_list, word_list[i])]
        keys == DictKeys(word_list, <<>>)
        wordfreq_pair(key) == wordfreq[CHOOSE i \in 1..Len(word_list) : word_list[i] = key]
        aux == [i \in 1..Len(keys) |-> <<wordfreq_pair(keys[i]), keys[i]>>]
    IN Slice(Reverse(sort(aux)), nof)

sentence_stopwords(t, dflt, nof, arg, nltk_ok, nsent) ==
    IF ~nltk_ok THEN Null(<<"check_nltk_dependencies">>)
    ELSE LET col == IF Truthy(arg) THEN arg ELSE dflt
         IN IF ~Truthy(col)
            THEN Raise("ValueError", MissingColumn, <<"check_nltk_dependencies">>)
            ELSE IF ~InColumns(col, t)
            THEN Raise("ValueError", ColumnNotFound,
                       <<"check_nltk_dependencies", "__getitem__">>)
            ELSE IF getitem(t, col).dtype # "object"
            THEN Raise("AttributeError", "Can only use .str accessor with string values",
                       <<"check_nltk_dependencies", "__getitem__", "str.cat">>)
            ELSE LET all_messages == all_messages_of(getitem(t, col).cells)
                 IN Frame(<<"Number of sentences", "Stop words", "Frequency">>,
                          <<nsent, StopWordCount, Frequency(all_messages, nof)>>,
                          <<"check_nltk_dependencies", "__getitem__", "str.cat",
                            "sent_tokenize", "split">>)

----------------------------------------------------------------------------
(* get_part_of_speech, lines 192-275 *)

\* lines 238-248: tag abbreviation and label, in the dict's insertion order
lookup_dict ==
    << <<"ADJ", "adjective">>, <<"ADP", "adposition">>, <<"ADV", "adverb">>,
       <<"CONJ", "conjuction">>, <<"DET", "article">>, <<"NOUN", "noun">>,
       <<"NUM", "numeral">>, <<"PRT", "particle">>, <<"PRON", "pronoun">>,
       <<"VERB", "verb">>, <<".", "punctuation">> >>

\* the tags of nltk's universal tagset: the keys of lookup_dict and X (other)
UniversalTags == {lookup_dict[i][1] : i \in 1..Len(lookup_dict)} \cup {"X"}

\* a show_only argument: a list of labels, or a value that is not iterable
ListFilter(items) == [kind |-> "list", n |-> 0, items |-> items]
IntFilter(n) == [kind |-> "int", n |-> n, items |-> <<>>]
BoolFilter(b) == [kind |-> "bool", n |-> IF b THEN 1 ELSE 0, items |-> <<>>]
NoneFilter == [kind |-> "NoneType", n |-> 0, items |-> <<>>]

\* line 192: the default show_only
DefaultShowOnly == ListFilter(<<"adjective", "noun", "verb">>)

\* bool(show_only)
FilterTruthy(f) ==
    CASE f.kind = "list" -> Len(f.items) # 0
      [] f.kind = "int" -> f.n # 0
      [] f.kind = "bool" -> f.n # 0
      [] f.kind = "NoneType" -> FALSE

\* whether "v in show_only" is defined
Iterable(f) == f.kind = "list"

InFilter(v, f) == \E i \in 1..Len(f.items) : f.items[i] = v

\* the entries of d that the filter names, in the order the filter lists them
RECURSIVE FilterDict_filter_order(_, _)
FilterDict_filter_order(d, f) ==
    IF Len(f.items) = 0 THEN <<>>
    ELSE LET rest == FilterDict_filter_order(d, ListFilter(Tail(f.items)))
             hit == SelectSeq(d, LAMBDA kv : kv[2] = Head(f.items))
         IN hit \o SelectSeq(rest, LAMBDA kv : kv[2] # Head(f.items))

\* line 253: {k: v for k, v in lookup_dict.items() if v in show_only}
RECURSIVE FilterDict(_, _)
FilterDict(d, f) ==
    IF Len(d) = 0 THEN <<>>
    ELSE IF InFilter(Head(d)[2], f)
         THEN <<Head(d)>> \o FilterDict(Tail(d), f)
         ELSE FilterDict(Tail(d), f)

\* a filter check that lets every value through
FilterRaises_never(f) == FALSE

\* lines 251-255: "v in show_only" raises TypeError, which is raised again
FilterRaises(f) == FilterTruthy(f) /\ ~Iterable(f)

\* lines 269-272: the number of tags equal to k
CountTag(tags, k) == Cardinality({i \in 1..Len(tags) : tags[i] = k})

\* round(v / n, 4) in units of 1/10000, n > 0.  Python rounds the quotient
\* half to even; a tie needs 20000 * v to be an odd multiple of n.
Round4(v, n) ==
    LET q == (10000 * v) \div n
        r == (10000 * v) % n
    IN IF 2 * r < n THEN q
       ELSE IF 2 * r > n THEN q + 1
       ELSE IF q % 2 = 0 THEN q ELSE q + 1

\* whether the corpus has a character that is not whitespace
HasToken(text) == \E i \in 1..Len(text) : ~IsSpace(text[i])

\* nltk.pos_tag(nltk.word_tokenize(text)): one tag per token, no token
\* in a text of whitespace only, at least one otherwise
TaggingsOf(text, tagseqs) ==
    IF HasToken(text) THEN {tg \in tagseqs : Len(tg) > 0} ELSE {<<>>}

get_part_of_speech(t, dflt, show_only, arg, nltk_ok, tags) ==
    IF ~nltk_ok THEN Null(<<"check_nltk_dependencies">>)
    ELSE LET col == IF Truthy(arg) THEN arg ELSE dflt
         IN IF ~Truthy(col)
            THEN Raise("ValueError", MissingColumn, <<"check_nltk_dependencies">>)
            ELSE IF ~InColumns(col, t)
            THEN Raise("ValueError", ColumnNotFound,
                       <<"check_nltk_dependencies", "__getitem__">>)
            ELSE IF FilterRaises(show_only)
            THEN Raise("TypeError",
                       "show_only should be iterable object containing values from part of speech",
                       <<"check_nltk_dependencies", "__getitem__", "show_only">>)
            ELSE IF getitem(t, col).dtype # "object"
            THEN Raise("TypeError", "sequence item 0: expected str instance",
                       <<"check_nltk_dependencies", "__getitem__", "show_only", "join">>)
            ELSE LET lookup == IF FilterTruthy(show_only)
                               THEN FilterDict(lookup_dict, show_only)
                               ELSE lookup_dict
                     counts == [i \in 1..Len(lookup) |-> CountTag(tags, lookup[i][1])]
                     trace == <<"check_nltk_dependencies", "__getitem__", "show_only",
                                "join", "pos_tag">>
                 IN IF Len(lookup) # 0 /\ Len(tags) = 0
                    THEN Raise("ZeroDivisionError", "division by zero", trace)
                    ELSE Frame([i \in 1..Len(lookup) |-> lookup[i][2]],
                               [i \in 1..Len(lookup) |-> Round4(counts[i], Len(tags))],
                               trace)

----------------------------------------------------------------------------
(* detect_language, lines 277-334 *)

\* predictions[0][0][-2:]
Last2(label) == SubSeq(label, Len(label) - 1, Len(label))

\* languages.get(alpha_2 = code): the language's name, None for an unknown code
languages_get(code) ==
    CASE code = <<"e", "n">> -> "English"
      [] code = <<"e", "s">> -> "Spanish"
      [] code = <<"z", "h">> -> "Chinese"
      [] OTHER -> None

\* detect_language looking the column up before it checks the dependency
detect_language_lookup_first(t, dflt, arg, fasttext_ok, label) ==
    LET col == IF Truthy(arg) THEN arg ELSE dflt
    IN IF ~Truthy(col)
       THEN Raise("ValueError", MissingColumn, <<>>)
       ELSE IF ~InColumns(col, t)
       THEN Raise("ValueError", ColumnNotFound, <<"__getitem__">>)
       ELSE IF ~fasttext_ok THEN Null(<<"__getitem__", "fasttext_dependencies">>)
       ELSE IF getitem(t, col).dtype # "object"
       THEN Raise("TypeError", "sequence item 0: expected str instance",
                  <<"__getitem__", "fasttext_dependencies", "load_model", "join">>)
       ELSE LET language == languages_get(Last2(label))
                trace == <<"__getitem__", "fasttext_dependencies", "load_model",
                           "join", "predict">>
            IN IF language = None
               THEN Raise("AttributeError", "'NoneType' object has no attribute 'name'",
                          trace)
               ELSE Frame(<<"language">>, <<language>>, trace)

detect_language(t, dflt, arg, fasttext_ok, label) ==
    IF ~fasttext_ok THEN Null(<<"fasttext_dependencies">>)
    ELSE LET col == IF Truthy(arg) THEN arg ELSE dflt
         IN IF ~Truthy(col)
            THEN Raise("ValueError", MissingColumn, <<"fasttext_dependencies">>)
            ELSE IF ~InColumns(col, t)
            THEN Raise("ValueError", ColumnNotFound,
                       <<"fasttext_dependencies", "__getitem__">>)
            ELSE IF getitem(t, col).dtype # "object"
            THEN Raise("TypeError", "sequence item 0: expected str instance",
                       <<"fasttext_dependencies", "__getitem__", "load_model", "join">>)
            ELSE LET language == languages_get(Last2(label))
                     trace == <<"fasttext_dependencies", "__getitem__", "load_model",
                                "join", "predict">>
                 IN IF language = None
                    THEN Raise("AttributeError", "'NoneType' object has no attribute 'name'",
                               trace)
                    ELSE Frame(<<"language">>, <<language>>, trace)

----------------------------------------------------------------------------
(* polarity, lines 336-405 *)

WordAt(s, i) == i >= 1 /\ i <= Len(s) /\ IsWord(s[i])

\* the regular expression \b between s[p] and s[p + 1]
Boundary(s, p) == WordAt(s, p) # WordAt(s, p + 1)

\* whether s[i + 1 .. j] matches [\w-]*
InClass(s, i, j) == \A k \in (i + 1)..j : IsWord(s[k]) \/ s[k] = "-"

\* the ends of the matches of \b\w[\w-]*\b that start at s[i]
MatchEnds(s, i) ==
    IF Boundary(s, i - 1) /\ WordAt(s, i)
    THEN {j \in i..Len(s) : InClass(s, i, j) /\ Boundary(s, j)}
    ELSE {}

\* the greedy quantifier takes the longest match
GreedyEnd(s, i) == CHOOSE j \in MatchEnds(s, i) : \A k \in MatchEnds(s, i) : k <= j

\* re.findall(r'\b\w[\w-]*\b', s) scanning from s[i]: leftmost, not overlapping
RECURSIVE FindallFrom(_, _)
FindallFrom(s, i) ==
    IF i > Len(s) THEN <<>>
    ELSE IF MatchEnds(s, i) # {}
         THEN <<SubSeq(s, i, GreedyEnd(s, i))>> \o FindallFrom(s, GreedyEnd(s, i) + 1)
         ELSE FindallFrom(s, i + 1)

findall(s) == FindallFrom(s, 1)

\* word in lexicon
InList(word, list) == \E i \in 1..Len(list) : list[i] = word

\* the number of distinct tokens that are in the lexicon
WordCount_distinct(word_tokens, lexicon) ==
    Cardinality({w \in {word_tokens[i] : i \in 1..Len(word_tokens)} : InList(w, lexicon)})

\* lines 394-403: the number of tokens that are in the lexicon
WordCount(word_tokens, lexicon) ==
    Cardinality({i \in 1..Len(word_tokens) : InList(word_tokens[i], lexicon)})

\* polarity returning None, instead of raising, for a column that does not exist
polarity_keyerror_null(t, dflt, arg, nltk_ok, files_ok, positive_words, negative_words) ==
    IF ~nltk_ok THEN Null(<<"check_nltk_dependencies">>)
    ELSE LET col == IF Truthy(arg) THEN arg ELSE dflt
         IN IF ~Truthy(col)
            THEN Raise("ValueError", MissingColumn, <<"check_nltk_dependencies">>)
            ELSE IF ~InColumns(col, t)
            THEN Null(<<"check_nltk_dependencies", "__getitem__">>)
            ELSE IF ~files_ok
            THEN Raise("FileNotFoundError", "data/positive-words.txt",
                       <<"check_nltk_dependencies", "__getitem__", "read_csv">>)
            ELSE IF getitem(t, col).dtype # "object"
            THEN Raise("AttributeError", "Can only use .str accessor with string values",
                       <<"check_nltk_dependencies", "__getitem__", "read_csv", "str.cat">>)
            ELSE LET all_messages == Join(<<",", " ">>, getitem(t, col).cells)
                     word_tokens == findall(lower(all_messages))
                 IN Frame(<<"positive_words", "negative_words">>,
                          <<WordCount(word_tokens, positive_words),
                            WordCount(word_tokens, negative_words)>>,
                          <<"check_nltk_dependencies", "__getitem__", "read_csv",
                            "str.cat", "findall">>)

polarity(t, dflt, arg, nltk_ok, files_ok, positive_words, negative_words) ==
    IF ~nltk_ok THEN Null(<<"check_nltk_dependencies">>)
    ELSE LET col == IF Truthy(arg) THEN arg ELSE dflt
         IN IF ~Truthy(col)
            THEN Raise("ValueError", MissingColumn, <<"check_nltk_dependencies">>)
            ELSE IF ~InColumns(col, t)
            THEN Raise("ValueError", ColumnNotFound,
                       <<"check_nltk_dependencies", "__getitem__">>)
            ELSE IF ~files_ok
            THEN Raise("FileNotFoundError", "data/positive-words.txt",
                       <<"check_nltk_dependencies", "__getitem__", "read_csv">>)
            ELSE IF getitem(t, col).dtype # "object"
            THEN Raise("AttributeError", "Can only use .str accessor with string values",
                       <<"check_nltk_dependencies", "__getitem__", "read_csv", "str.cat">>)
            ELSE LET all_messages == Join(<<",", " ">>, getitem(t, col).cells)
                     word_tokens == findall(lower(all_messages))
                 IN Frame(<<"positive_words", "negative_words">>,
                          <<WordCount(word_tokens, positive_words),
                            WordCount(word_tokens, negative_words)>>,
                          <<"check_nltk_dependencies", "__getitem__", "read_csv",
                            "str.cat", "findall">>)

----------------------------------------------------------------------------
(* get_nlp_summary, lines 69-110 *)

\* the methods that NLPFrame defines
Methods == {"get_nlp_summary", "sentence_stopwords", "get_part_of_speech",
            "detect_language", "polarity"}

\* line 103: self.summary_4(column=column).  NLPFrame defines no summary_4, and
\* no column of the model's tables has that name, so the attribute lookup fails.
summary_4(t, dflt, arg, nltk_ok, nsent) ==
    IF "summary_4" \in Methods
    THEN sentence_stopwords(t, dflt, 3, arg, nltk_ok, nsent)
    ELSE Raise("AttributeError", "'NLPFrame' object has no attribute 'summary_4'",
               <<"getattr">>)

\* the external inputs of one call
Env(ft, lb, nl, ns, tg, fl, pw, nw) ==
    [fasttext_ok |-> ft, label |-> lb, nltk_ok |-> nl, nsent |-> ns, tags |-> tg,
     files_ok |-> fl, positive_words |-> pw, negative_words |-> nw]

\* pd.concat(parts, axis=1) of one-row frames: None is dropped, and it is a
\* ValueError when every part is None
RECURSIVE ConcatColumns(_)
ConcatColumns(parts) ==
    IF Len(parts) = 0 THEN <<>>
    ELSE Head(parts).columns \o ConcatColumns(Tail(parts))

RECURSIVE ConcatRow(_)
ConcatRow(parts) ==
    IF Len(parts) = 0 THEN <<>>
    ELSE Head(parts).row \o ConcatRow(Tail(parts))

AnalyzerNames == <<"detect_language", "summary_4", "get_part_of_speech", "polarity">>

\* get_nlp_summary with the test for a missing column inside the try block
get_nlp_summary_soft(t, dflt, arg, e) ==
    LET col == IF Truthy(arg) THEN arg ELSE dflt
        parts == << detect_language(t, dflt, col, e.fasttext_ok, e.label),
                    summary_4(t, dflt, col, e.nltk_ok, e.nsent),
                    get_part_of_speech(t, dflt, DefaultShowOnly, col, e.nltk_ok, e.tags),
                    polarity(t, dflt, col, e.nltk_ok, e.files_ok,
                             e.positive_words, e.negative_words) >>
        raising == {i \in 1..4 : parts[i].kind = "raise"}
        first == CHOOSE i \in raising : \A j \in raising : i <= j
    IN IF ~Truthy(col)
       THEN EmptyFrame(<<>>)
       ELSE IF raising # {}
       THEN IF parts[first].exc = "ValueError"
            THEN EmptyFrame(SubSeq(AnalyzerNames, 1, first))
            ELSE Raise(parts[first].exc, parts[first].msg, SubSeq(AnalyzerNames, 1, first))
       ELSE IF \A i \in 1..4 : parts[i].kind = "null"
       THEN EmptyFrame(AnalyzerNames)
       ELSE LET frames == SelectSeq(parts, LAMBDA r : r.kind = "frame")
            IN Frame(ConcatColumns(frames), ConcatRow(frames), AnalyzerNames)

get_nlp_summary(t, dflt, arg, e) ==
    LET col == IF Truthy(arg) THEN arg ELSE dflt
        parts == << detect_language(t, dflt, col, e.fasttext_ok, e.label),
                    summary_4(t, dflt, col, e.nltk_ok, e.nsent),
                    get_part_of_speech(t, dflt, DefaultShowOnly, col, e.nltk_ok, e.tags),
                    polarity(t, dflt, col, e.nltk_ok, e.files_ok,
                             e.positive_words, e.negative_words) >>
        raising == {i \in 1..4 : parts[i].kind = "raise"}
        first == CHOOSE i \in raising : \A j \in raising : i <= j
    IN IF ~Truthy(col)
       THEN Raise("ValueError", MissingColumn, <<>>)
       ELSE IF raising # {}
       THEN IF parts[first].exc = "ValueError"
            THEN EmptyFrame(SubSeq(AnalyzerNames, 1, first))
            ELSE Raise(parts[first].exc, parts[first].msg, SubSeq(AnalyzerNames, 1, first))
       ELSE IF \A i \in 1..4 : parts[i].kind = "null"
       THEN EmptyFrame(AnalyzerNames)
       ELSE LET frames == SelectSeq(parts, LAMBDA r : r.kind = "frame")
            IN Frame(ConcatColumns(frames), ConcatRow(frames), AnalyzerNames)

----------------------------------------------------------------------------
(* The public calls as actions *)

Call(op, arg, nof, show_only) ==
    [op |-> op, column |-> arg, nof |-> nof, show_only |-> show_only]

NoCall == Call("", "", 0, NoneFilter)

\* line 258: '\n'.join(pd_df_col), the text handed to the tokenizer and the tagger
concatenated_text(cells) == Join(<<"\n">>, cells)

NLPFrame__init__ ==
    /\ phase = "new"
    /\ phase' = "ready"
    /\ column' = InitColumn(table, ctor_arg)
    /\ UNCHANGED <<table, ctor_arg, env, call, result>>

Call_sentence_stopwords(nof, arg) ==
    /\ phase = "ready"
    /\ call' = Call("sentence_stopwords", arg, nof, NoneFilter)
    /\ result' = sentence_stopwords(table, column, nof, arg, env.nltk_ok, env.nsent)
    /\ UNCHANGED <<phase, table, ctor_arg, column, env>>

Call_get_part_of_speech(show_only, arg) ==
    /\ phase = "ready"
    /\ call' = Call("get_part_of_speech", arg, 0, show_only)
    /\ result' = get_part_of_speech(table, column, show_only, arg, env.nltk_ok, env.tags)
    /\ UNCHANGED <<phase, table, ctor_arg, column, env>>

Call_detect_language(arg) ==
    /\ phase = "ready"
    /\ call' = Call("detect_language", arg, 0, NoneFilter)
    /\ result' = detect_language(table, column, arg, env.fasttext_ok, env.label)
    /\ UNCHANGED <<phase, table, ctor_arg, column, env>>

\* polarity keeping the column it resolved as the stored default
Call_polarity_stores(arg) ==
    /\ phase = "ready"
    /\ call' = Call("polarity", arg, 0, NoneFilter)
    /\ result' = polarity(table, column, arg, env.nltk_ok, env.files_ok,
                          env.positive_words, env.negative_words)
    /\ column' = IF Truthy(arg) THEN arg ELSE column
    /\ UNCHANGED <<phase, table, ctor_arg, env>>

Call_polarity(arg) ==
    /\ phase = "ready"
    /\ call' = Call("polarity", arg, 0, NoneFilter)
    /\ result' = polarity(table, column, arg, env.nltk_ok, env.files_ok,
                          env.positive_words, env.negative_words)
    /\ UNCHANGED <<phase, table, ctor_arg, column, env>>

Call_get_nlp_summary(arg) ==
    /\ phase = "ready"
    /\ call' = Call("get_nlp_summary", arg, 0, NoneFilter)
    /\ result' = get_nlp_summary(table, column, arg, env)
    /\ UNCHANGED <<phase, table, ctor_arg, column, env>>

----------------------------------------------------------------------------
(* The frame-level specification: tables of several columns, every call *)

ColumnNames == {"text", "notes", "num"}

GoodWord == <<"g">>
HyphenWord == <<"g", "-", "g">>

\* the cells of the columns of the frame-level tables
TextCells == << <<"g">>, <<"G", "-", "g">> >>
NumberCells == << <<"1">> >>

FrameColumns ==
    {Col(n, "object", TextCells) : n \in ColumnNames}
    \cup {Col(n, "int64", NumberCells) : n \in ColumnNames}

\* tables of at most MaxColumns columns with distinct names
Tables ==
    {t \in SeqsUpTo(FrameColumns, MaxColumns) :
        \A i, j \in 1..Len(t) : i # j => t[i].name # t[j].name}

\* column arguments of a call: '' (use the default), a name, a name of no column
ColumnArgs == {"", "text", "num", "missing"}

CtorArgs == {None, ""} \cup ColumnNames \cup {"missing"}

Labels == {<<"e", "n">>, <<"c", "e", "b">>}

Init ==
    /\ phase = "new"
    /\ table \in Tables
    /\ ctor_arg \in CtorArgs
    /\ column = None
    /\ env \in {Env(ft, <<"e", "n">>, nl, 2, <<"NOUN", "X">>, TRUE, <<GoodWord>>, <<HyphenWord>>) :
                   ft \in BOOLEAN, nl \in BOOLEAN}
               \cup {Env(TRUE, lb, TRUE, 2, <<"NOUN", "X">>, TRUE, <<GoodWord>>, <<HyphenWord>>) :
                       lb \in Labels}
    /\ call = NoCall
    /\ result = NoResult

Next ==
    \/ NLPFrame__init__
    \/ \E arg \in ColumnArgs : Call_sentence_stopwords(3, arg)
    \/ \E show_only \in {DefaultShowOnly, IntFilter(5)}, arg \in ColumnArgs :
          Call_get_part_of_speech(show_only, arg)
    \/ \E arg \in ColumnArgs : Call_detect_language(arg)
    \/ \E arg \in ColumnArgs : Call_polarity(arg)
    \/ \E arg \in ColumnArgs : Call_get_nlp_summary(arg)

Spec == Init /\ [][Next]_vars

----------------------------------------------------------------------------
(* The filter specification: one text column, get_part_of_speech with every *)
(* kind of show_only                                                        *)

EmptyCells == << <<>> >>

TextTable(cells) == << Col("text", "object", cells) >>

FilterLabels == {"adjective", "noun", "verb"}

NonIterables == {NoneFilter, BoolFilter(FALSE), BoolFilter(TRUE),
                 IntFilter(0), IntFilter(5), IntFilter(0 - 1)}

Filters ==
    {ListFilter(items) : items \in SeqsUpTo(FilterLabels, MaxFilter)}
    \cup {DefaultShowOnly} \cup NonIterables

TagSet == {"NOUN", "VERB", "X"}

InitFilter ==
    /\ phase = "new"
    /\ table \in {TextTable(EmptyCells), TextTable(TextCells)}
    /\ ctor_arg = None
    /\ column = None
    /\ env \in {Env(TRUE, <<"e", "n">>, nl, 2, tg, TRUE, <<GoodWord>>, <<HyphenWord>>) :
                   nl \in BOOLEAN,
                   tg \in TaggingsOf(concatenated_text(table[1].cells),
                                     SeqsUpTo(TagSet, MaxTags))}
    /\ call = NoCall
    /\ result = NoResult

NextFilter ==
    \/ NLPFrame__init__
    \/ \E show_only \in Filters, arg \in {"", "missing"} :
          Call_get_part_of_speech(show_only, arg)

SpecFilter == InitFilter /\ [][NextFilter]_vars

----------------------------------------------------------------------------
(* The part-of-speech specification: one text column, every tagging of up  *)
(* to MaxPosTags tokens                                                     *)

PosTagSet == {"ADJ", "NOUN", "VERB", "X"}

InitPOS ==
    /\ phase = "new"
    /\ table \in {TextTable(EmptyCells), TextTable(TextCells)}
    /\ ctor_arg = None
    /\ column = None
    /\ env \in {Env(TRUE, <<"e", "n">>, nl, 2, tg, TRUE, <<GoodWord>>, <<HyphenWord>>) :
                   nl \in BOOLEAN,
                   tg \in TaggingsOf(concatenated_text(table[1].cells),
                                     SeqsUpTo(PosTagSet, MaxPosTags))}
    /\ call = NoCall
    /\ result = NoResult

NextPOS ==
    \/ NLPFrame__init__
    \/ \E show_only \in {DefaultShowOnly, NoneFilter, ListFilter(<<"noun">>)} :
          Call_get_part_of_speech(show_only, "")

SpecPOS == InitPOS /\ [][NextPOS]_vars

----------------------------------------------------------------------------
(* The frequency specification: one text column of every small text, and   *)
(* sentence_stopwords with every nof                                        *)

FreqChars == {"a", " "}

\* cells with a second word, with punctuation and with repeated words
FreqVocabulary ==
    { <<"b">>, <<"a", " ", "b">>, <<"b", " ", "a">>, <<"a", "b">>,
      <<"b", ".", " ", "a", " ", "b", ".">> }

\* the cells ["a a b", "b c"]
ExampleCells == << <<"a", " ", "a", " ", "b">>, <<"b", " ", "c">> >>

\* longer cells, with repeated tokens and with ties between tokens
FreqExamples ==
    { ExampleCells,
      << <<"a", " ", "b", " ", "a">>, <<"b", " ", " ", "c", " ", "b">> >>,
      << <<"b", " ", "a", ".", " ", "a">>, <<>>, <<"a", "b", " ", "a">> >> }

\* text columns of at most MaxCells cells: every cell of at most MaxCellLen
\* characters, and the cells of the vocabulary
TextColumns(chars, vocabulary) ==
    SeqsUpTo(SeqsUpTo(chars, MaxCellLen) \cup vocabulary, MaxCells)

InitFreq ==
    /\ phase = "new"
    /\ table \in {TextTable(cells) : cells \in TextColumns(FreqChars, FreqVocabulary) \cup FreqExamples}
    /\ ctor_arg = None
    /\ column = None
    /\ env = Env(TRUE, <<"e", "n">>, TRUE, 2, <<"NOUN">>, TRUE, <<GoodWord>>, <<HyphenWord>>)
    /\ call = NoCall
    /\ result = NoResult

NextFreq ==
    \/ NLPFrame__init__
    \/ \E nof \in 0..MaxNof : Call_sentence_stopwords(nof, "")

SpecFreq == InitFreq /\ [][NextFreq]_vars

----------------------------------------------------------------------------
(* The polarity specification: one text column of every small text, and    *)
(* polarity with several lexicons                                           *)

PolarityChars == {"g", "-"}

\* cells with upper case, with several words and with hyphens inside a word
PolarityVocabulary ==
    { <<"G">>, <<"G", "-", "g">>, <<"g", " ", "g">>, <<"-", "g", "-", "-", "G">>,
      <<"g", "-", " ", "G", "g">> }

\* cells with several words each
PolarityExamples ==
    { << <<"G", " ", "g", "-", "g">>, <<"-", "g", " ", "g", "-">> >>,
      << <<"g", "-", "-", "G", ",", "g">> >> }

\* the words columns of the positive and of the negative lexicon file
LexiconPairs ==
    { << <<HyphenWord, GoodWord>>, <<GoodWord>> >>,
      << <<>>, <<HyphenWord>> >> }

InitPolarity ==
    /\ phase = "new"
    /\ table \in {TextTable(cells) :
                     cells \in TextColumns(PolarityChars, PolarityVocabulary)
                                  \cup PolarityExamples}
    /\ ctor_arg = None
    /\ column = None
    /\ env \in {Env(TRUE, <<"e", "n">>, TRUE, 2, <<"NOUN">>, TRUE, lx[1], lx[2]) :
                   lx \in LexiconPairs}
    /\ call = NoCall
    /\ result = NoResult

NextPolarity ==
    \/ NLPFrame__init__
    \/ Call_polarity("")

SpecPolarity == InitPolarity /\ [][NextPolarity]_vars

----------------------------------------------------------------------------
(* Properties of the frame-level specification *)

PerAnalyzerOps == {"sentence_stopwords", "get_part_of_speech", "detect_language", "polarity"}

\* the dependency check of an analyzer passed
DepOk(op) == IF op = "detect_language" THEN env.fasttext_ok ELSE env.nltk_ok

\* the name of the dependency check of an analyzer
DepCheck(op) ==
    IF op = "detect_language" THEN "fasttext_dependencies" ELSE "check_nltk_dependencies"

\* the indices of the string-typed columns
ObjectIndices == {i \in 1..Len(table) : table[i].dtype = "object"}

\* C1: after construction the stored default column is the given name when it
\* is non-empty and a column of the table; otherwise the first string-typed
\* column in column order; otherwise none.  A given name that is not a column
\* is never stored.
C1_DefaultColumn ==
    phase = "ready" =>
        /\ IF ctor_arg \notin {None, ""} /\ (\E i \in 1..Len(table) : table[i].name = ctor_arg)
           THEN column = ctor_arg
           ELSE IF ObjectIndices # {}
           THEN \E i \in ObjectIndices :
                   /\ \A j \in ObjectIndices : i <= j
                   /\ column = table[i].name
           ELSE column = None
        /\ (ctor_arg \notin {None, ""} /\ ~(\E i \in 1..Len(table) : table[i].name = ctor_arg))
              => column # ctor_arg

\* a name of no column was given and the second column, the first string-typed
\* one, became the default
C1_Witness ==
    /\ phase = "ready"
    /\ ctor_arg = "missing"
    /\ Len(table) = 2
    /\ table[1].dtype = "int64"
    /\ table[2].dtype = "object"
    /\ column = table[2].name

\* the column a call resolves: the explicit argument, else the stored default
Resolved == IF call.column \notin {None, ""} THEN call.column ELSE column

SummaryColumns ==
    <<"language", "Number of sentences", "Stop words", "Frequency",
      "adjective", "noun", "verb", "positive_words", "negative_words">>

\* C2: when the resolved column exists, get_nlp_summary returns one row made of
\* the results of the language detector, the frequency analyzer, the POS
\* analyzer and the polarity analyzer side by side, and does not raise.
C2_SummaryRow ==
    (call.op = "get_nlp_summary" /\ Resolved \notin {None, ""}
        /\ (\E i \in 1..Len(table) : table[i].name = Resolved /\ table[i].dtype = "object")
        /\ env.fasttext_ok /\ env.nltk_ok /\ env.files_ok /\ env.label = <<"e", "n">>)
    => (result.kind = "frame" /\ result.columns = SummaryColumns)

\* C3 as stated: with no column to resolve get_nlp_summary returns an empty
\* result and does not raise.
C3_Original ==
    (call.op = "get_nlp_summary" /\ call.column = "" /\ column = None)
    => result.kind = "empty"

\* C3 amended: with no column to resolve get_nlp_summary raises ValueError, as
\* does every analyzer whose dependency check passes; an analyzer whose check
\* fails returns null.
C3_MissingColumnRaises ==
    (phase = "ready" /\ call.op # "" /\ call.column = "" /\ column = None)
    => IF call.op = "get_nlp_summary" \/ DepOk(call.op)
       THEN result.kind = "raise" /\ result.exc = "ValueError" /\ result.msg = MissingColumn
       ELSE result.kind = "null"

C3_Witness ==
    /\ call.op = "get_nlp_summary"
    /\ call.column = ""
    /\ column = None
    /\ result.kind = "raise"
    /\ result.exc = "ValueError"

\* C4 as stated: an analyzer called with the name of a column that does not
\* exist raises ValueError, whatever the state of the dependencies.
C4_Original ==
    (call.op \in PerAnalyzerOps /\ call.column # ""
        /\ ~(\E i \in 1..Len(table) : table[i].name = call.column))
    => (result.kind = "raise" /\ result.exc = "ValueError")

\* C4 amended: an analyzer called with the name of a column that does not exist
\* raises ValueError when its dependency check passes, and returns null when
\* the check fails.
C4_ColumnNotFound ==
    (call.op \in PerAnalyzerOps /\ call.column # ""
        /\ ~(\E i \in 1..Len(table) : table[i].name = call.column))
    => IF DepOk(call.op)
       THEN result.kind = "raise" /\ result.exc = "ValueError" /\ result.msg = ColumnNotFound
       ELSE result.kind = "null"

C4_Witness ==
    /\ call.op = "polarity"
    /\ call.column = "missing"
    /\ Len(table) > 0
    /\ env.nltk_ok
    /\ result.kind = "raise"
    /\ result.msg = ColumnNotFound

\* C5: an analyzer whose dependency check fails returns null, does not raise,
\* and has done nothing but the check: no column lookup, no text processing.
C5_DependencyShortCircuit ==
    (call.op \in PerAnalyzerOps /\ ~DepOk(call.op))
    => (result.kind = "null" /\ result.trace = <<DepCheck(call.op)>>)

\* the fasttext check failed on a call that names a column that does not exist
C5_Witness ==
    /\ call.op = "detect_language"
    /\ ~env.fasttext_ok
    /\ call.column = "missing"
    /\ result.kind = "null"

----------------------------------------------------------------------------
(* Properties of get_part_of_speech *)

\* the call is get_part_of_speech on the text column
PosOnText ==
    /\ call.op = "get_part_of_speech"
    /\ Resolved = "text"

\* C7 as stated: every show_only that is not iterable, every integer included,
\* makes get_part_of_speech on a valid text column raise TypeError.
C7_Original ==
    (PosOnText /\ env.nltk_ok /\ call.show_only.kind # "list")
    => (result.kind = "raise" /\ result.exc = "TypeError")

\* C7 amended: with the NLTK check passing, every show_only that is not
\* iterable and is true (a non-zero integer, True) makes get_part_of_speech on
\* a valid text column raise TypeError; one that is false (0, False, None) is
\* taken as no filter and raises no TypeError.
C7_InvalidFilter ==
    (PosOnText /\ env.nltk_ok /\ call.show_only.kind # "list")
    => IF call.show_only.kind \in {"int", "bool"} /\ call.show_only.n # 0
       THEN result.kind = "raise" /\ result.exc = "TypeError"
       ELSE result.exc # "TypeError"

C7_Witness ==
    /\ PosOnText
    /\ env.nltk_ok
    /\ call.show_only = IntFilter(5)
    /\ result.kind = "raise"
    /\ result.exc = "TypeError"

\* the 11 categories in the order of the tagset
TagsetOrder ==
    <<"adjective", "adposition", "adverb", "conjuction", "article", "noun",
      "numeral", "particle", "pronoun", "verb", "punctuation">>

IndexIn(seq, x) == CHOOSE i \in 1..Len(seq) : seq[i] = x /\ \A j \in 1..(i - 1) : seq[j] # x

\* the columns are the categories of the list, each once
ColumnsAre(cols, items) ==
    /\ {cols[i] : i \in 1..Len(cols)} = {items[i] : i \in 1..Len(items)}
    /\ \A i, j \in 1..Len(cols) : i # j => cols[i] # cols[j]

\* the columns follow the order of the sequence order
OrderedBy(cols, order) ==
    \A i, j \in 1..Len(cols) : i < j => IndexIn(order, cols[i]) < IndexIn(order, cols[j])

PosFrame == call.op = "get_part_of_speech" /\ result.kind = "frame"

\* C8 as stated: the result has one column per retained category, in the order
\* in which the filter lists the categories; all 11 in tagset order when the
\* filter is empty, false or none; adjective, noun, verb for the default.
C8_Original ==
    PosFrame =>
        /\ (call.show_only.kind = "list" /\ Len(call.show_only.items) > 0)
              => /\ ColumnsAre(result.columns, call.show_only.items)
                 /\ OrderedBy(result.columns, call.show_only.items)
        /\ ~(call.show_only.kind = "list" /\ Len(call.show_only.items) > 0)
              => result.columns = TagsetOrder
        /\ call.show_only.items = <<"adjective", "noun", "verb">>
              => result.columns = <<"adjective", "noun", "verb">>

\* C8 amended: the result has one column per retained category, in tagset
\* order whatever the order of the filter; all 11 in tagset order when the
\* filter is empty, false or none; adjective, noun, verb for the default.
C8_ColumnOrder ==
    PosFrame =>
        /\ (call.show_only.kind = "list" /\ Len(call.show_only.items) > 0)
              => /\ ColumnsAre(result.columns, call.show_only.items)
                 /\ OrderedBy(result.columns, TagsetOrder)
        /\ ~(call.show_only.kind = "list" /\ Len(call.show_only.items) > 0)
              => result.columns = TagsetOrder
        /\ call.show_only.items = <<"adjective", "noun", "verb">>
              => result.columns = <<"adjective", "noun", "verb">>

\* the filter lists verb before noun and the result has noun before verb
C8_Witness ==
    /\ PosFrame
    /\ call.show_only.items = <<"verb", "noun">>
    /\ result.columns = <<"noun", "verb">>

\* the tag abbreviation of a category
TagOf(label) ==
    CASE label = "adjective" -> "ADJ"
      [] label = "adposition" -> "ADP"
      [] label = "adverb" -> "ADV"
      [] label = "conjuction" -> "CONJ"
      [] label = "article" -> "DET"
      [] label = "noun" -> "NOUN"
      [] label = "numeral" -> "NUM"
      [] label = "particle" -> "PRT"
      [] label = "pronoun" -> "PRON"
      [] label = "verb" -> "VERB"
      [] label = "punctuation" -> "."

RECURSIVE SumSeq(_)
SumSeq(q) == IF Len(q) = 0 THEN 0 ELSE Head(q) + SumSeq(Tail(q))

\* x is v / n rounded to 4 decimal places, in units of 1/10000
IsRounded(x, v, n) == 2 * n * x - n <= 20000 * v /\ 20000 * v <= 2 * n * x + n

\* C9: for every text column and every filter get_part_of_speech returns, for
\* each retained category, the number of tokens of that category divided by the
\* number of all tagged tokens, rounded to 4 decimal places; each value is in
\* [0, 1] and the values sum to at most 1.
C9_Proportions ==
    (PosOnText /\ env.nltk_ok /\ ~(call.show_only.kind \in {"int", "bool"} /\ call.show_only.n # 0))
    => /\ result.kind = "frame"
       /\ \A i \in 1..Len(result.columns) :
             /\ IsRounded(result.row[i],
                          Cardinality({k \in 1..Len(env.tags) :
                                          env.tags[k] = TagOf(result.columns[i])}),
                          Len(env.tags))
             /\ result.row[i] >= 0
             /\ result.row[i] <= 10000
       /\ SumSeq(result.row) <= 10000

\* C9, the part on the sum alone: the values of a result sum to at most 1
C9_SumAtMostOne == PosFrame => SumSeq(result.row) <= 10000

----------------------------------------------------------------------------
(* Properties of sentence_stopwords *)

\* the call is sentence_stopwords on the cells ["a a b", "b c"] and it returned
ExampleFrequency ==
    /\ call.op = "sentence_stopwords"
    /\ table = TextTable(ExampleCells)
    /\ result.kind = "frame"

\* C6 as stated: for the cells ["a a b", "b c"] the counts are a:2, b:2, c:1,
\* and the top 2 is [(2, "b"), (2, "a")].
C6_Original ==
    ExampleFrequency =>
        /\ call.nof = 2 => Cell(result, "Frequency") = << <<2, <<"b">>>>, <<2, <<"a">>>> >>
        /\ call.nof = 3 => Cell(result, "Frequency")
                              = << <<2, <<"b">>>>, <<2, <<"a">>>>, <<1, <<"c">>>> >>

\* C6 amended: for the cells ["a a b", "b c"], joined with ". " and split at
\* whitespace, the tokens are a, a, b., b, c; the counts are a:2, b.:1, b:1,
\* c:1, and the top 2 is [(2, "a"), (1, "c")].
C6_ExampleFrequency ==
    ExampleFrequency =>
        /\ call.nof = 2 => Cell(result, "Frequency") = << <<2, <<"a">>>>, <<1, <<"c">>>> >>
        /\ call.nof = 4 => Cell(result, "Frequency")
                              = << <<2, <<"a">>>>, <<1, <<"c">>>>,
                                   <<1, <<"b", ".">>>>, <<1, <<"b">>>> >>

C6_Witness ==
    /\ ExampleFrequency
    /\ call.nof = 2
    /\ Len(Cell(result, "Frequency")) = 2
    /\ Cell(result, "Frequency")[1][2] = <<"a">>

----------------------------------------------------------------------------
(* Properties of polarity *)

\* the corpus of the text column, lower-cased
LowerCorpus == lower(Join(<<",", " ">>, table[1].cells))

InWordClass(c) == IsWord(c) \/ c = "-"

\* s[i..j] is a token: it starts and ends with a word character, has only word
\* characters and hyphens, and no word character continues it on either side
IsToken(s, i, j) ==
    /\ i <= j
    /\ IsWord(s[i])
    /\ IsWord(s[j])
    /\ \A k \in i..j : InWordClass(s[k])
    /\ ~\E k \in 1..(i - 1) : IsWord(s[k]) /\ \A m \in k..i : InWordClass(s[m])
    /\ ~\E k \in (j + 1)..Len(s) : IsWord(s[k]) /\ \A m \in j..k : InWordClass(s[m])

\* the occurrences of tokens in s
TokenSpans(s) == {ij \in (1..Len(s)) \X (1..Len(s)) : IsToken(s, ij[1], ij[2])}

\* the occurrences of tokens of s that are words of the list
Occurrences(s, list) ==
    {ij \in TokenSpans(s) : \E w \in 1..Len(list) : list[w] = SubSeq(s, ij[1], ij[2])}

\* C10: polarity returns as positive_words the number of token occurrences of
\* the lower-cased corpus that are in the positive lexicon and as
\* negative_words the number that are in the negative lexicon, each counted on
\* its own; both are non-negative and at most the number of tokens.
C10_PolarityCounts ==
    (call.op = "polarity" /\ result.kind = "frame") =>
        /\ result.columns = <<"positive_words", "negative_words">>
        /\ Cell(result, "positive_words")
              = Cardinality(Occurrences(LowerCorpus, env.positive_words))
        /\ Cell(result, "negative_words")
              = Cardinality(Occurrences(LowerCorpus, env.negative_words))
        /\ Cell(result, "positive_words") \in 0..Cardinality(TokenSpans(LowerCorpus))
        /\ Cell(result, "negative_words") \in 0..Cardinality(TokenSpans(LowerCorpus))

\* a word of both lexicons occurs twice, once in upper case, and counts twice
\* in each total
C10_Witness ==
    /\ call.op = "polarity"
    /\ result.kind = "frame"
    /\ table = TextTable(<< <<"G">>, <<"g">> >>)
    /\ env.positive_words = <<HyphenWord, GoodWord>>
    /\ env.negative_words = <<GoodWord>>
    /\ Cell(result, "positive_words") = 2
    /\ Cell(result, "negative_words") = 2

----------------------------------------------------------------------------
(* Properties of sequences of calls *)

\* the outcome of the last call, had it been made on the frame as it was right
\* after construction
OutcomeAfterConstruction ==
    LET dflt == InitColumn(table, ctor_arg)
    IN CASE call.op = "sentence_stopwords" ->
               sentence_stopwords(table, dflt, call.nof, call.column, env.nltk_ok, env.nsent)
         [] call.op = "get_part_of_speech" ->
               get_part_of_speech(table, dflt, call.show_only, call.column,
                                  env.nltk_ok, env.tags)
         [] call.op = "detect_language" ->
               detect_language(table, dflt, call.column, env.fasttext_ok, env.label)
         [] call.op = "polarity" ->
               polarity(table, dflt, call.column, env.nltk_ok, env.files_ok,
                        env.positive_words, env.negative_words)
         [] call.op = "get_nlp_summary" ->
               get_nlp_summary(table, dflt, call.column, env)

\* C11: no analyzer call, with or without a column override, whether it
\* returns, returns null or raises, changes the table or the stored default
\* column; the same call made again has the same outcome, and after any calls
\* a call has the outcome it would have had right after construction, so an
\* override in one call does not reach a later call.
C11_CallsLeaveFrame ==
    /\ [][phase = "ready" =>
             /\ table' = table
             /\ column' = column
             /\ (call' = call => result' = result)]_vars
    /\ [](phase = "ready" /\ call.op # "" => result = OutcomeAfterConstruction)

\* a call that overrides the column with a column of numbers has raised, and
\* the stored default is still the text column picked at construction
C11_Witness ==
    /\ phase = "ready"
    /\ ctor_arg = None
    /\ call.op = "polarity"
    /\ call.column = "num"
    /\ result.kind = "raise"
    /\ column = "text"
    /\ Len(table) = 2
    /\ table[1].name = "num"
    /\ table[2].name = "text"

----------------------------------------------------------------------------
(* Properties of the Frequency field *)

\* the corpus of the text column, the cells joined by ". "
FreqCorpus == Join(<<".", " ">>, table[1].cells)

\* s[i..j] is a whitespace-delimited token: no whitespace inside, whitespace
\* or an end of the text on either side
IsSplitToken(s, i, j) ==
    /\ i <= j
    /\ \A k \in i..j : s[k] \notin {" ", "\n"}
    /\ (i = 1 \/ s[i - 1] \in {" ", "\n"})
    /\ (j = Len(s) \/ s[j + 1] \in {" ", "\n"})

SplitSpans(s) == {ij \in (1..Len(s)) \X (1..Len(s)) : IsSplitToken(s, ij[1], ij[2])}

\* the distinct tokens of s, and the number of occurrences of a token
DistinctTokens(s) == {SubSeq(s, ij[1], ij[2]) : ij \in SplitSpans(s)}

OccurrencesOf(s, w) == Cardinality({ij \in SplitSpans(s) : SubSeq(s, ij[1], ij[2]) = w})

\* u comes before w in lexicographic order of code points
LexBefore(u, w) ==
    \E k \in 1..(Len(w)) :
        /\ \A m \in 1..(k - 1) : m <= Len(u) /\ u[m] = w[m]
        /\ (k > Len(u) \/ (k <= Len(u) /\ Ord(u[k]) < Ord(w[k])))

\* the pair p ranks above the pair q: more occurrences, or as many and a token
\* later in lexicographic order
RanksAbove(p, q) == p[1] > q[1] \/ (p[1] = q[1] /\ LexBefore(q[2], p[2]))

Min(a, b) == IF a < b THEN a ELSE b

\* C12: the Frequency field is the first N of the (count, token) pairs, one
\* per distinct whitespace-delimited token of the ". "-joined corpus, with the
\* exact number of occurrences as count, sorted by count descending and, among
\* equal counts, by token descending; it has at most N pairs, its tokens are
\* pairwise distinct and every count is at least 1.
C12_TopFrequencies ==
    (call.op = "sentence_stopwords" /\ result.kind = "frame") =>
        LET freq == Cell(result, "Frequency")
            tokens == DistinctTokens(FreqCorpus)
        IN /\ Len(freq) = Min(call.nof, Cardinality(tokens))
           /\ Len(freq) <= call.nof
           /\ \A i \in 1..Len(freq) :
                 /\ freq[i][2] \in tokens
                 /\ freq[i][1] = OccurrencesOf(FreqCorpus, freq[i][2])
                 /\ freq[i][1] >= 1
           /\ \A i, j \in 1..Len(freq) : i < j =>
                 /\ freq[i][2] # freq[j][2]
                 /\ RanksAbove(freq[i], freq[j])
           /\ \A w \in tokens :
                 (\A i \in 1..Len(freq) : freq[i][2] # w) =>
                    \A i \in 1..Len(freq) :
                       RanksAbove(freq[i], <<OccurrencesOf(FreqCorpus, w), w>>)

\* three pairs were asked for of four distinct tokens; the first has three
\* occurrences and the next two are tied at one
C12_Witness ==
    /\ call.op = "sentence_stopwords"
    /\ result.kind = "frame"
    /\ call.nof = 3
    /\ Cardinality(DistinctTokens(FreqCorpus)) = 4
    /\ Len(Cell(result, "Frequency")) = 3
    /\ Cell(result, "Frequency")[1][1] = 3
    /\ Cell(result, "Frequency")[2][1] = 1
    /\ Cell(result, "Frequency")[3][1] = 1

====
